---- MODULE Spec2Model ----
(***************************************************************************)
(* Model of src/scraper.py: the Scraper session (static fetch, browser     *)
(* render, interaction simulation, teardown) and the section segmenter.   *)
(*                                                                         *)
(* Text is modelled by its length (the code only measures, slices and     *)
(* concatenates it); class and id attributes are sequences of characters, *)
(* because the code searches them for substrings.                         *)
(***************************************************************************)
EXTENDS Integers, Sequences, FiniteSets, TLC

VARIABLES
    pc,            \* position of the session (scrape_url / Scraper.scrape)
    html,          \* scrape: local html
    meta,          \* scrape: local meta (which extraction produced it)
    errors,        \* scrape: local errors
    interactions,  \* scrape: local interactions
    sections,      \* scrape: local sections
    outcome,       \* how scrape / scrape_url ended
    playwright,    \* self.playwright: 0 (None) or the index of an engine
    browser,       \* self.browser: 0 (None) or the index of a browser
    engines,       \* every automation engine started: "running" | "stopped"
    browsers,      \* every browser launched: "open" | "closed"
    pagesOpened,   \* every page created by new_page: "open" | "closed"
    call,          \* the render call in progress and its locals
    exc,           \* the exception in flight ("" when none)
    staticHtml,    \* history: the kind of markup _static_scrape returned
    failures,      \* history: the fetch and render operations that have raised
    renderCalls,   \* history: the render calls scrape has made
    harvest        \* history: what page.content() gave after a navigation timeout

vars == <<pc, html, meta, errors, interactions, sections, outcome, playwright,
          browser, engines, browsers, pagesOpened, call, exc, staticHtml,
          failures, renderCalls, harvest>>

----------------------------------------------------------------------------
(* Bounds of the model.                                                    *)

\* children of the body element in a document the static fetch returns or
\* the segmenter is given
MaxChildren == 2
\* children of the body element in a document a browser page holds
MaxPageChildren == 0
\* elements a tab lookup can return (one more than the code clicks)
MaxTabs == 4

----------------------------------------------------------------------------
(* Program constants.                                                      *)

MinTextLen == 200
MinMainLen == 100
TabLimit == 3
ScrollRounds == 3
PaginationRounds == 2
SectionLimit == 20
RawHtmlCap == 2000
EllipsisLen == 3
TextCap == 5000
LabelCap == 50
HeadingsCap == 10
LinksCap == 50
ImagesCap == 20
ListsCap == 10
LangChars == 2

----------------------------------------------------------------------------
(* Strings that the code searches: sequences of characters.                *)

Contains(s, w) ==
    \E i \in 1..(Len(s) - Len(w) + 1) : SubSeq(s, i, i + Len(w) - 1) = w

S_cookie == <<"c","o","o","k","i","e">>
S_banner == <<"b","a","n","n","e","r">>
S_modal == <<"m","o","d","a","l">>
S_popup == <<"p","o","p","u","p">>
S_overlay == <<"o","v","e","r","l","a","y">>
S_header == <<"h","e","a","d","e","r">>
S_nav == <<"n","a","v">>
S_footer == <<"f","o","o","t","e","r">>
S_hero == <<"h","e","r","o">>
S_faq == <<"f","a","q">>
S_pricing == <<"p","r","i","c","i","n","g">>
S_grid == <<"g","r","i","d">>
S_list == <<"l","i","s","t">>
S_modal_open == <<"m","o","d","a","l","-","o","p","e","n">>
S_cookie_banner == <<"c","o","o","k","i","e","-","b","a","n","n","e","r">>
S_faq_section == <<"f","a","q","-","s","e","c","t","i","o","n">>

Min(a, b) == IF a < b THEN a ELSE b

----------------------------------------------------------------------------
(* Markup.  A document is empty, whitespace only, or markup whose parse    *)
(* has (or, for a frameset document, has not) a body element holding a     *)
(* sequence of child elements.  An element carries its tag, its class and  *)
(* id, the length of its stripped text, of its first h1-h3 heading (0:     *)
(* none), of its first seven words joined, and of its serialized markup,   *)
(* and how many non-empty h1-h6 headings, links with an href, images with  *)
(* a src and non-empty lists it holds, and of how many h1-h3 elements,     *)
(* empty ones included, it is the parent (hs).                             *)

Elem(tag, class, id, text, heading, words, raw) ==
    [tag |-> tag, class |-> class, id |-> id, text |-> text,
     heading |-> heading, words |-> words, raw |-> raw,
     headings |-> IF heading > 0 THEN 1 ELSE 0, links |-> 0, images |-> 0, lists |-> 0,
     hs |-> IF heading > 0 THEN 1 ELSE 0]

Holding(e, headings, links, images, lists) ==
    [e EXCEPT !.headings = headings, !.links = links, !.images = images, !.lists = lists]

\* a section that exceeds every cap of the extractor by one
CrowdedSection ==
    Holding(Elem("section", <<>>, <<>>, TextCap + 1, LabelCap + 1, LabelCap + 1, 4000),
            HeadingsCap + 1, LinksCap + 1, ImagesCap + 1, ListsCap + 1)

\* the name of a custom element, 51 characters long
LongTag == "x-aaaaaaaaaaaaaaaaaaaaaaaaaaaaaaaaaaaaaaaaaaaaaaaaa"

\* <x-a...a><h1></h1></x-a...a>: a custom element around an empty heading
EmptyHeadingWrapper == [Elem(LongTag, <<>>, <<>>, 0, 0, 0, 116) EXCEPT !.hs = 1]

Elements ==
    { Elem("main", <<>>, <<>>, 250, 12, 40, 300),
      Elem("main", <<>>, <<>>, MinMainLen, 0, 60, RawHtmlCap),
      Elem("article", S_faq_section, <<>>, MinTextLen, 0, 30, RawHtmlCap + 1),
      Elem("section", S_cookie_banner, <<>>, 30, 0, 30, 90),
      Elem("h1", <<>>, <<>>, 10, 10, 10, 19),
      Elem("p", <<>>, <<>>, 250, 0, 45, 4000),
      CrowdedSection,
      EmptyHeadingWrapper }

RECURSIVE SeqsUpTo(_, _)
SeqsUpTo(n, S) ==
    IF n = 0 THEN { <<>> }
    ELSE LET shorter == SeqsUpTo(n - 1, S)
         IN  shorter \cup { Append(s, e) : s \in { t \in shorter : Len(t) = n - 1 }, e \in S }

Doc(kind, hasBody, bodyClass, children) ==
    [kind |-> kind, hasBody |-> hasBody, bodyClass |-> bodyClass, children |-> children]

\* "" and a string of white space
EmptyDoc == Doc("empty", FALSE, <<>>, <<>>)
BlankDoc == Doc("whitespace", FALSE, <<>>, <<>>)
\* markup whose parse has no body element (a frameset document)
FramesetDoc == Doc("markup", FALSE, <<>>, <<>>)

MarkupDocs(n) ==
    { Doc("markup", TRUE, c, ch) :
        c \in { <<>>, S_modal_open }, ch \in SeqsUpTo(n, Elements) }

\* bodies of as many landmarks as the segmenter keeps, and of one more
ManyLandmarkDocs ==
    { Doc("markup", TRUE, <<>>, [i \in 1..n |-> CrowdedSection]) :
        n \in { SectionLimit, SectionLimit + 1 } }

Docs ==
    { EmptyDoc, BlankDoc, FramesetDoc } \cup MarkupDocs(MaxChildren) \cup ManyLandmarkDocs

\* a value for "no document" (the static fetch raised)
NoDoc == Doc("none", FALSE, <<>>, <<>>)

RECURSIVE SumText(_)
SumText(s) == IF s = <<>> THEN 0 ELSE Head(s).text + SumText(Tail(s))

RECURSIVE SumRaw(_)
SumRaw(s) == IF s = <<>> THEN 0 ELSE Head(s).raw + SumRaw(Tail(s))

RECURSIVE SumOf(_, _)
SumOf(s, field) == IF s = <<>> THEN 0 ELSE Head(s)[field] + SumOf(Tail(s), field)

\* the body element of a parsed document, as an element: its text, its
\* serialization ("<body>" ... "</body>") and what it holds enclose those of
\* its children
BodyElem(class, children) ==
    LET hs == SelectSeq(children, LAMBDA e : e.heading > 0)
    IN  Holding(Elem("body", class, <<>>,
                     SumText(children),
                     IF hs = <<>> THEN 0 ELSE Head(hs).heading,
                     IF children = <<>> THEN 0 ELSE Head(children).words,
                     13 + SumRaw(children)),
                SumOf(children, "headings"), SumOf(children, "links"),
                SumOf(children, "images"), SumOf(children, "lists"))

----------------------------------------------------------------------------
(* Section classifier and extractor.                                       *)

LowerChar(c) ==
    CASE c = "F" -> "f" [] c = "A" -> "a" [] c = "Q" -> "q"
      [] c = "H" -> "h" [] c = "N" -> "n" [] OTHER -> c

Lower(s) == [i \in DOMAIN s |-> LowerChar(s[i])]

\* the classifier with the pricing rule tried before the faq rule
DetermineTypePricingFirst(tag_name, elem) ==
    LET tag_lower == tag_name
        class_attr == Lower(elem.class)
        id_attr == Lower(elem.id)
        has(w) == Contains(class_attr, w) \/ Contains(id_attr, w)
    IN  IF tag_lower = "header" \/ has(S_header) THEN "nav"
        ELSE IF tag_lower = "nav" \/ has(S_nav) THEN "nav"
        ELSE IF tag_lower = "footer" \/ has(S_footer) THEN "footer"
        ELSE IF tag_lower = "article" THEN "section"
        ELSE IF \/ Contains(class_attr, S_hero)
                \/ Contains(id_attr, S_hero)
                \/ (tag_lower = "section" /\ Contains(class_attr \o id_attr, S_hero))
             THEN "hero"
        ELSE IF has(S_pricing) THEN "pricing"
        ELSE IF has(S_faq) THEN "faq"
        ELSE IF has(S_grid) THEN "grid"
        ELSE IF has(S_list) THEN "list"
        ELSE "section"

\* Scraper._determine_type
_determine_type(tag_name, elem) ==
    LET tag_lower == tag_name
        class_attr == Lower(elem.class)
        id_attr == Lower(elem.id)
        has(w) == Contains(class_attr, w) \/ Contains(id_attr, w)
    IN  IF tag_lower = "header" \/ has(S_header) THEN "nav"
        ELSE IF tag_lower = "nav" \/ has(S_nav) THEN "nav"
        ELSE IF tag_lower = "footer" \/ has(S_footer) THEN "footer"
        ELSE IF tag_lower = "article" THEN "section"
        ELSE IF \/ Contains(class_attr, S_hero)
                \/ Contains(id_attr, S_hero)
                \/ (tag_lower = "section" /\ Contains(class_attr \o id_attr, S_hero))
             THEN "hero"
        ELSE IF has(S_faq) THEN "faq"
        ELSE IF has(S_pricing) THEN "pricing"
        ELSE IF has(S_grid) THEN "grid"
        ELSE IF has(S_list) THEN "list"
        ELSE "section"

\* len(tag_name.capitalize())
TagLen(tag) ==
    CASE tag \in { "p" } -> 1
      [] tag \in { "h1", "h2", "h3" } -> 2
      [] tag \in { "nav", "div" } -> 3
      [] tag \in { "body", "main" } -> 4
      [] tag \in { "header", "footer" } -> 6
      [] tag = LongTag -> LabelCap + 1
      [] OTHER -> 7

\* s[:cap], by length
Cut(n, cap) == IF n > cap THEN cap ELSE n

\* Scraper._derive_label: where the label comes from and its length
_derive_label(elem) ==
    IF elem.heading > 0
    THEN [from |-> "heading", len |-> Cut(elem.heading, LabelCap)]
    ELSE IF elem.text > 0
    THEN [from |-> "words", len |-> Cut(elem.words, LabelCap)]
    ELSE [from |-> elem.tag, len |-> TagLen(elem.tag)]

\* the literal label of the placeholder section
EmptyContentLabel == [from |-> "Empty Content", len |-> 13]

\* the raw snapshot with the marker appended and nothing cut
RawSnapshotUncut(raw) ==
    IF raw > RawHtmlCap THEN raw + EllipsisLen ELSE raw

\* Scraper._extract_section, lines 471-476: the raw snapshot
RawSnapshot(raw) ==
    IF raw > RawHtmlCap THEN RawHtmlCap + EllipsisLen ELSE raw

\* Scraper._extract_section
_extract_section(elem, base_url, idx) ==
    LET section_type == _determine_type(elem.tag, elem)
    IN  [id |-> <<section_type, idx>>,
         type |-> section_type,
         label |-> _derive_label(elem),
         sourceUrl |-> base_url,
         headings |-> Cut(elem.headings, HeadingsCap),
         text |-> Cut(elem.text, TextCap),
         links |-> Cut(elem.links, LinksCap),
         images |-> Cut(elem.images, ImagesCap),
         lists |-> Cut(elem.lists, ListsCap),
         rawHtml |-> RawSnapshot(elem.raw),
         truncated |-> elem.raw > RawHtmlCap]

\* the section _parse_sections returns for empty markup
EmptySection(base_url) ==
    [id |-> <<"empty", 0>>, type |-> "unknown", label |-> EmptyContentLabel,
     sourceUrl |-> base_url, headings |-> 0, text |-> 0, links |-> 0,
     images |-> 0, lists |-> 0, rawHtml |-> 0,
     truncated |-> FALSE]

----------------------------------------------------------------------------
(* Section segmenter.                                                      *)

\* the noise selectors of _parse_sections
IsNoise(class, id) ==
    \/ \E w \in { S_cookie, S_banner, S_modal, S_popup, S_overlay } : Contains(class, w)
    \/ \E w \in { S_cookie, S_banner, S_modal, S_popup } : Contains(id, w)

Landmarks == { "header", "nav", "main", "section", "footer", "article" }
HeadingTags == { "h1", "h2", "h3" }

\* what parser.body gives after decompose() has freed the body element: the
\* tree still points at the freed node, which reads as it was or as hollow
StaleBodies == { "intact", "hollow" }

\* parser.body after the noise removal, as a sequence of at most one element
BodyAfterNoise(doc, stale) ==
    IF ~doc.hasBody THEN <<>>
    ELSE IF IsNoise(doc.bodyClass, <<>>)
    THEN << BodyElem(doc.bodyClass, IF stale = "intact" THEN doc.children ELSE <<>>) >>
    ELSE << BodyElem(doc.bodyClass,
                     SelectSeq(doc.children, LAMBDA e : ~IsNoise(e.class, e.id))) >>

\* the children still in the tree after the noise removal
KeptChildren(doc) ==
    IF ~doc.hasBody \/ IsNoise(doc.bodyClass, <<>>) THEN <<>>
    ELSE SelectSeq(doc.children, LAMBDA e : ~IsNoise(e.class, e.id))

Take(s, n) == SubSeq(s, 1, Cut(Len(s), n))

\* heading.parent for every h1-h3 element of the tree, in document order
RECURSIVE HeadingParents(_, _)
HeadingParents(kept, body) ==
    IF kept = <<>> THEN <<>>
    ELSE LET e == Head(kept)
         IN  (IF e.tag \in HeadingTags THEN body ELSE [i \in 1..e.hs |-> e])
             \o HeadingParents(Tail(kept), body)

\* Scraper._parse_sections
_parse_sections(doc, base_url, stale) ==
    IF doc.kind # "markup" THEN << EmptySection(base_url) >>
    ELSE
      LET kept == KeptChildren(doc)
          body == BodyAfterNoise(doc, stale)
          landmarks == SelectSeq(kept, LAMBDA e : e.tag \in Landmarks)
          heading_parents == HeadingParents(kept, body)
          section_elements ==
              IF landmarks # <<>> THEN landmarks
              ELSE IF heading_parents # <<>> THEN heading_parents
              ELSE body
          capped == Take(section_elements, SectionLimit)
          found == [i \in 1..Len(capped) |-> _extract_section(capped[i], base_url, i - 1)]
      IN  IF found # <<>> THEN found
          ELSE IF body # <<>> THEN << _extract_section(body[1], base_url, 0) >>
          ELSE <<>>

----------------------------------------------------------------------------
(* URLs and the href values a next-page link can carry.                    *)

Url(host, path) == <<host, path>>
RequestedUrl == Url("a.test", "/")

NoHref == [kind |-> "none", host |-> "", path |-> ""]
EmptyHref == [kind |-> "empty", host |-> "", path |-> ""]
RelHref(path) == [kind |-> "rel", host |-> "", path |-> path]
AbsHref(host, path) == [kind |-> "abs", host |-> host, path |-> path]

Hrefs ==
    { NoHref, EmptyHref, RelHref("/"), RelHref("/p2"),
      AbsHref("a.test", "/p2"), AbsHref("b.test", "/") }

\* urllib.parse.urljoin for an absolute URL or an absolute path
urljoin(base, href) ==
    IF href.kind = "abs" THEN Url(href.host, href.path) ELSE Url(base[1], href.path)

InSeq(x, s) == \E i \in 1..Len(s) : s[i] = x

----------------------------------------------------------------------------
(* Fetch strategy selector: helpers.                                       *)

\* parser.body.text() if parser.body else "", stripped: its length
BodyText(doc) == IF doc.hasBody THEN SumText(doc.children) ELSE 0

\* Scraper._has_main_content
_has_main_content(doc) ==
    LET mains == SelectSeq(doc.children, LAMBDA e : e.tag = "main")
        articles == SelectSeq(doc.children, LAMBDA e : e.tag = "article")
    IN  IF mains # <<>> THEN Head(mains).text > MinMainLen
        ELSE IF articles # <<>> THEN Head(articles).text > MinMainLen
        ELSE FALSE

\* the choice with "and" for "or"
NeedsFullRenderBoth(doc) ==
    BodyText(doc) < MinTextLen /\ ~_has_main_content(doc)

\* Scraper.scrape, line 65: the full render is chosen
NeedsFullRender(doc) ==
    BodyText(doc) < MinTextLen \/ ~_has_main_content(doc)

Err(phase, message, cause) == [phase |-> phase, message |-> message, cause |-> cause]

NoInteractions == [clicks |-> <<>>, scrolls |-> 0, pages |-> << RequestedUrl >>]

\* where a new page is before its first navigation
BlankPage == Url("about", "blank")

NoCall ==
    [fn |-> "none", site |-> "try", errors |-> <<>>, ctx |-> "try",
     clicks |-> <<>>, scrolls |-> 0, pages_visited |-> <<>>,
     tabs |-> 0, lm |-> 0, issued |-> 0, round |-> 0, at |-> BlankPage,
     html |-> NoDoc, meta |-> "none"]

\* the locals of _js_scrape / _js_scrape_for_interactions on entry
NewCall(fn, site) ==
    [NoCall EXCEPT !.fn = fn, !.site = site, !.pages_visited = << RequestedUrl >>]

----------------------------------------------------------------------------
(* The session: scrape_url, Scraper.scrape and the render calls.           *)

\* what an operation can raise, named by the operation
Causes ==
    { "fetch", "start", "launch", "new_page", "goto", "goto_timeout", "content",
      "close", "tabs_lookup", "tab_click", "load_more", "scroll", "next_lookup",
      "href_read", "page_goto" }

\* a handler that lets everything but a navigation timeout through
CatchesTimeoutOnly(e) == e = "goto_timeout"

\* "except Exception" (lines 74 and 81): every cause is an Exception
Catches(e) == e \in Causes

TabSelector == "[role=tab]"

\* load_more_selectors, lines 183-190
load_more_selectors ==
    << "button:has-text(Load more)", "button:has-text(Show more)",
       "button:has-text(Load More)", "a:has-text(Load more)",
       "[class*=load-more]", "[class*=show-more]" >>

\* the responses of the static fetch taken: no markup, markup without a
\* body, every body of at most one element, and two bodies that separate
\* the text length from the main content and the noise from the content
StaticDocs ==
    { EmptyDoc, BlankDoc, FramesetDoc }
      \cup { Doc("markup", TRUE, <<>>, ch) : ch \in SeqsUpTo(1, Elements) }
      \cup { Doc("markup", TRUE, <<>>,
                 << Elem("main", <<>>, <<>>, MinMainLen, 0, 60, RawHtmlCap),
                    Elem("p", <<>>, <<>>, 250, 0, 45, 4000) >>),
             Doc("markup", TRUE, <<>>,
                 << Elem("main", <<>>, <<>>, MinMainLen, 0, 60, RawHtmlCap),
                    Elem("article", S_faq_section, <<>>, MinTextLen, 0, 30, RawHtmlCap + 1) >>),
             Doc("markup", TRUE, S_modal_open,
                 << Elem("main", <<>>, <<>>, 250, 12, 40, 300) >>) }

\* the documents page.content() can give: the serialized DOM of a page
PageDocs == { FramesetDoc } \cup MarkupDocs(MaxPageChildren)

\* the visited list without the membership test
VisitUnchecked(pages_visited, full_url) == Append(pages_visited, full_url)

\* lines 217-218: the visited list after a next-page URL was resolved
Visit(pages_visited, full_url) ==
    IF ~InSeq(full_url, pages_visited) THEN Append(pages_visited, full_url)
    ELSE pages_visited

\* an except clause of a render call that labels its error with phase "fetch"
EnterHandlerAsFetch(c, ctx, message, cause) ==
    [c EXCEPT !.errors = Append(@, Err("fetch", message, cause)), !.ctx = ctx]

\* an except clause of a render call records the error and takes over
EnterHandler(c, ctx, message, cause) ==
    [c EXCEPT !.errors = Append(@, Err("render", message, cause)), !.ctx = ctx]

\* history: nothing harvested, no hard failure yet
NoHarvest ==
    [timedOut |-> FALSE, doc |-> NoDoc,
     kept |-> [hard |-> FALSE, clicks |-> 0, scrolls |-> 0, pages |-> 0]]

\* history: how many clicks, scrolls and pages the interaction render had
\* accumulated when its handler (235) was entered
AtHardFailure(h, c) ==
    IF c.fn # "interact" THEN h
    ELSE [h EXCEPT !.kept = [hard |-> TRUE, clicks |-> Len(c.clicks),
                             scrolls |-> c.scrolls, pages |-> Len(c.pages_visited)]]

HandlerMessage(fn) == IF fn = "js" THEN "JS rendering error" ELSE "Interaction error"

scrapeVars == <<html, meta, errors, interactions, sections, outcome>>
sessionVars == <<playwright, browser, engines, browsers>>
historyVars == <<staticHtml, renderCalls, harvest>>

Init ==
    /\ pc = "static"
    /\ html = NoDoc
    /\ meta = "none"
    /\ errors = <<>>
    /\ interactions = NoInteractions
    /\ sections = <<>>
    /\ outcome = [scrape |-> "none", session |-> "none"]
    /\ playwright = 0
    /\ browser = 0
    /\ engines = <<>>
    /\ browsers = <<>>
    /\ pagesOpened = <<>>
    /\ call = NoCall
    /\ exc = ""
    /\ staticHtml = "none"
    /\ failures = {}
    /\ renderCalls = <<>>
    /\ harvest = NoHarvest

\* an exception leaves the render call (or the static fetch): its locals
\* are gone, the try block of scrape it was called from is remembered
Raise(cause) ==
    /\ pc' = "raised"
    /\ exc' = cause
    /\ failures' = failures \cup { cause }
    /\ call' = [NoCall EXCEPT !.site = call.site]

\* Scraper.scrape, lines 57-73, with _static_scrape (110-117): the static
\* fetch and the choice of the render call
StaticScrape ==
    /\ pc = "static"
    /\ \E r \in StaticDocs \cup { NoDoc } :
         /\ staticHtml' = r.kind
         /\ IF r = NoDoc
            THEN /\ Raise("fetch")
                 /\ UNCHANGED <<html, meta, renderCalls>>
            ELSE /\ html' = r
                 /\ meta' = "static"
                 /\ LET fn == IF NeedsFullRender(r) THEN "js" ELSE "interact"
                    IN  /\ call' = NewCall(fn, "try")
                        /\ renderCalls' = Append(renderCalls, fn)
                 /\ pc' = "get_browser"
                 /\ UNCHANGED <<exc, failures>>
    /\ UNCHANGED <<errors, interactions, sections, outcome, sessionVars,
                   pagesOpened, harvest>>

\* Scraper.scrape, lines 74-78: the handler of the outer try
ExceptOuter ==
    /\ pc = "raised"
    /\ call.site = "try"
    /\ IF Catches(exc)
       THEN /\ errors' = Append(errors, Err("fetch", "Static scrape failed", exc))
            /\ call' = NewCall("js", "except")
            /\ renderCalls' = Append(renderCalls, "js")
            /\ pc' = "get_browser"
            /\ UNCHANGED outcome
       ELSE /\ outcome' = [outcome EXCEPT !.scrape = "raised"]
            /\ call' = NoCall
            /\ pc' = "cleanup"
            /\ UNCHANGED <<errors, renderCalls>>
    /\ exc' = ""
    /\ UNCHANGED <<html, meta, interactions, sections, sessionVars,
                   pagesOpened, staticHtml, failures, harvest>>

\* Scraper.scrape, lines 81-84: the handler of the inner try
ExceptInner ==
    /\ pc = "raised"
    /\ call.site = "except"
    /\ IF Catches(exc)
       THEN /\ errors' = Append(errors, Err("render", "JS scrape failed", exc))
            /\ html' = EmptyDoc
            /\ meta' = "default"
            /\ pc' = "parse"
            /\ UNCHANGED outcome
       ELSE /\ outcome' = [outcome EXCEPT !.scrape = "raised"]
            /\ pc' = "cleanup"
            /\ UNCHANGED <<errors, html, meta>>
    /\ exc' = ""
    /\ call' = NoCall
    /\ UNCHANGED <<interactions, sections, sessionVars, pagesOpened, failures,
                   historyVars>>

\* Scraper.get_browser, lines 37-42
GetBrowser ==
    /\ pc = "get_browser"
    /\ IF browser # 0
       THEN /\ pc' = "new_page"
            /\ UNCHANGED <<sessionVars, exc, failures, call>>
       ELSE \E r \in { "ok", "start", "launch" } :
              /\ IF r = "start"
                 THEN UNCHANGED <<playwright, engines>>
                 ELSE /\ engines' = Append(engines, "running")
                      /\ playwright' = Len(engines) + 1
              /\ IF r = "ok"
                 THEN /\ browsers' = Append(browsers, "open")
                      /\ browser' = Len(browsers) + 1
                      /\ pc' = "new_page"
                      /\ UNCHANGED <<exc, failures, call>>
                 ELSE /\ Raise(r)
                      /\ UNCHANGED <<browser, browsers>>
    /\ UNCHANGED <<scrapeVars, pagesOpened, historyVars>>

\* browser.new_page(), lines 128 and 162
NewPage ==
    /\ pc = "new_page"
    /\ \/ /\ pagesOpened' = Append(pagesOpened, "open")
          /\ pc' = "goto"
          /\ UNCHANGED <<exc, failures, call>>
       \/ /\ Raise("new_page")
          /\ UNCHANGED pagesOpened
    /\ UNCHANGED <<scrapeVars, sessionVars, historyVars>>

\* page.goto(url), lines 132-133 and 169-170, with the except clause it
\* reaches (141-142, 147-148, 235-236)
Goto ==
    /\ pc = "goto"
    /\ \E r \in { "ok", "goto_timeout", "goto" } :
         IF r = "ok"
         THEN /\ pc' = IF call.fn = "js" THEN "content" ELSE "tabs"
              /\ call' = [call EXCEPT !.at = RequestedUrl]
              /\ UNCHANGED <<failures, harvest>>
         ELSE /\ pc' = "content"
              /\ failures' = failures \cup { r }
              /\ harvest' = LET h == AtHardFailure(harvest, call)
                            IN  IF r = "goto_timeout"
                                THEN [h EXCEPT !.timedOut = TRUE, !.doc = NoDoc] ELSE h
              /\ call' = IF call.fn = "js" /\ r = "goto_timeout"
                         THEN EnterHandler(call, "timeout", "Timeout waiting for page load", r)
                         ELSE EnterHandler(call, "generic", HandlerMessage(call.fn), r)
    /\ UNCHANGED <<scrapeVars, sessionVars, pagesOpened, exc, staticHtml, renderCalls>>

\* the except clause of _js_scrape_for_interactions (235-236) entered from
\* an interaction step
HardFailure(c, cause) ==
    /\ call' = EnterHandler(c, "generic", "Interaction error", cause)
    /\ harvest' = AtHardFailure(harvest, c)
    /\ pc' = "content"
    /\ UNCHANGED <<staticHtml, renderCalls>>

\* lines 173-174: the tab lookup
TabsLookup ==
    /\ pc = "tabs"
    /\ \/ HardFailure(call, "tabs_lookup")
       \/ \E n \in 0..MaxTabs :
            /\ call' = [call EXCEPT !.tabs = Min(n, TabLimit), !.lm = 1]
            /\ pc' = IF n > 0 THEN "tab_click" ELSE "load_more"
            /\ UNCHANGED historyVars
    /\ UNCHANGED <<scrapeVars, sessionVars, pagesOpened, exc, failures>>

\* lines 175-180: one tab click
TabClick ==
    /\ pc = "tab_click"
    /\ \E r \in { "ok", "tab_click" } :
         call' = [call EXCEPT !.tabs = @ - 1,
                              !.clicks = IF r = "ok" THEN Append(@, TabSelector) ELSE @]
    /\ pc' = IF call.tabs > 1 THEN "tab_click" ELSE "load_more"
    /\ UNCHANGED <<scrapeVars, sessionVars, pagesOpened, exc, failures, historyVars>>

\* lines 192-201: one candidate of the load-more scan
LoadMore ==
    /\ pc = "load_more"
    /\ \E r \in { "query_raises", "no_match", "clicked", "click_raises" } :
         LET last == call.lm = Len(load_more_selectors)
             \* button.click() was called: history, in issued
             n == IF r \in { "clicked", "click_raises" } THEN 1 ELSE 0
         IN  /\ call' = IF r = "clicked"
                        THEN [call EXCEPT !.clicks = Append(@, load_more_selectors[call.lm]),
                                          !.issued = @ + n]
                        ELSE [call EXCEPT !.lm = @ + 1, !.issued = @ + n]
             /\ pc' = IF r = "clicked" \/ last THEN "scroll" ELSE "load_more"
    /\ UNCHANGED <<scrapeVars, sessionVars, pagesOpened, exc, failures, historyVars>>

\* a next link is followed in whatever round it is found
PaginatesEveryRound(next_links, i) == next_links

\* line 212: "if next_links and i < 2"
Paginates(next_links, i) == next_links /\ i < PaginationRounds

\* lines 204-222: one round of scroll and pagination
ScrollRound ==
    /\ pc = "scroll"
    /\ \/ HardFailure(call, "scroll")
       \/ HardFailure([call EXCEPT !.scrolls = @ + 1], "next_lookup")
       \/ \E found \in BOOLEAN, href \in Hrefs \cup { [kind |-> "raises", host |-> "", path |-> ""] },
             nav \in { "ok", "raises" } :
            LET paginate == Paginates(found, call.round)
                follow == paginate /\ href.kind \in { "rel", "abs" }
                full_url == urljoin(RequestedUrl, href)
                \* whether page.goto(full_url) raised changes nothing: line 221
                go == follow /\ ~InSeq(full_url, call.pages_visited) /\ nav = "ok"
            IN  /\ call' = [call EXCEPT
                              !.scrolls = @ + 1,
                              !.round = @ + 1,
                              !.pages_visited = IF follow THEN Visit(@, full_url) ELSE @,
                              !.at = IF go THEN full_url ELSE @]
                /\ pc' = IF call.round + 1 < ScrollRounds THEN "scroll" ELSE "content"
                /\ UNCHANGED historyVars
    /\ UNCHANGED <<scrapeVars, sessionVars, pagesOpened, exc, failures>>

\* page.content() and _extract_meta_js: lines 136-137, 143-144, 150-154,
\* 224-225, 238-242
Content ==
    /\ pc = "content"
    /\ LET afterTimeout ==
             /\ call.errors # <<>>
             /\ call.errors[Len(call.errors)].cause = "goto_timeout"
       IN
       \/ \E d \in PageDocs :
            /\ call' = [call EXCEPT !.html = d, !.meta = "js"]
            /\ harvest' = IF afterTimeout THEN [harvest EXCEPT !.doc = d] ELSE harvest
            /\ pc' = "close"
            /\ UNCHANGED <<exc, failures>>
       \/ /\ call.ctx = "try"
          /\ call' = EnterHandler(call, "generic", HandlerMessage(call.fn), "content")
          /\ harvest' = AtHardFailure(harvest, call)
          /\ failures' = failures \cup { "content" }
          /\ pc' = "content"
          /\ UNCHANGED exc
       \/ /\ call.ctx = "timeout"
          /\ Raise("content")
          /\ UNCHANGED harvest
       \/ /\ call.ctx = "generic"
          /\ call' = [call EXCEPT !.html = EmptyDoc, !.meta = "default"]
          /\ failures' = failures \cup { "content" }
          /\ pc' = "close"
          /\ UNCHANGED <<exc, harvest>>
    /\ UNCHANGED <<scrapeVars, sessionVars, pagesOpened, staticHtml, renderCalls>>

\* page.close() and the return of the render call into scrape: lines 139-140,
\* 145-146, 155-156, 227-234, 243-249, and 66-68, 71-73, 78-80
ClosePage ==
    /\ pc = "close"
    /\ \/ /\ pagesOpened' = [pagesOpened EXCEPT ![Len(pagesOpened)] = "closed"]
          /\ html' = call.html
          /\ meta' = call.meta
          /\ errors' = errors \o call.errors
          /\ interactions' =
               IF call.fn = "js" THEN NoInteractions
               ELSE [clicks |-> call.clicks, scrolls |-> call.scrolls,
                     pages |-> call.pages_visited]
          /\ call' = NoCall
          /\ pc' = "parse"
          /\ UNCHANGED <<exc, failures, harvest>>
       \/ /\ call.ctx = "try"
          /\ call' = EnterHandler(call, "generic", HandlerMessage(call.fn), "close")
          /\ harvest' = AtHardFailure(harvest, call)
          /\ failures' = failures \cup { "close" }
          /\ pc' = "content"
          /\ UNCHANGED <<html, meta, errors, interactions, pagesOpened, exc>>
       \/ /\ call.ctx # "try"
          /\ Raise("close")
          /\ UNCHANGED <<html, meta, errors, interactions, pagesOpened, harvest>>
    /\ UNCHANGED <<sections, outcome, sessionVars, staticHtml, renderCalls>>

\* Scraper.scrape, lines 86-96: segmentation and the returned document
ParseSections ==
    /\ pc = "parse"
    /\ \E stale \in StaleBodies : sections' = _parse_sections(html, RequestedUrl, stale)
    /\ outcome' = [outcome EXCEPT !.scrape = "returned"]
    /\ pc' = "cleanup"
    /\ UNCHANGED <<html, meta, errors, interactions, sessionVars, pagesOpened,
                   call, exc, failures, historyVars>>

\* scrape_url (546-550) leaving the session: __aexit__ and cleanup, lines
\* 25-35.  self.page is never assigned, so no page is closed here; closing
\* the browser closes the pages it still holds.
Cleanup ==
    /\ pc = "cleanup"
    /\ \E closing \in { "ok", "browser_close" }, stopping \in { "ok", "engine_stop" } :
         LET closed == browser # 0 /\ closing = "ok"
             closeRaised == browser # 0 /\ closing # "ok"
             stopped == ~closeRaised /\ playwright # 0 /\ stopping = "ok"
             stopRaised == ~closeRaised /\ playwright # 0 /\ stopping # "ok"
         IN  /\ browsers' = IF closed THEN [browsers EXCEPT ![browser] = "closed"]
                            ELSE browsers
             /\ pagesOpened' = IF closed THEN [i \in DOMAIN pagesOpened |-> "closed"]
                               ELSE pagesOpened
             /\ engines' = IF stopped THEN [engines EXCEPT ![playwright] = "stopped"]
                           ELSE engines
             /\ failures' = failures
                  \cup (IF closeRaised THEN { closing } ELSE {})
                  \cup (IF stopRaised THEN { stopping } ELSE {})
             /\ outcome' = [outcome EXCEPT !.session =
                              IF closeRaised \/ stopRaised \/ outcome.scrape = "raised"
                              THEN "raised" ELSE "returned"]
    /\ pc' = "done"
    /\ UNCHANGED <<html, meta, errors, interactions, sections, playwright, browser,
                   call, exc, historyVars>>

Next ==
    \/ StaticScrape
    \/ ExceptOuter
    \/ ExceptInner
    \/ GetBrowser
    \/ NewPage
    \/ Goto
    \/ TabsLookup
    \/ TabClick
    \/ LoadMore
    \/ ScrollRound
    \/ Content
    \/ ClosePage
    \/ ParseSections
    \/ Cleanup

Spec == Init /\ [][Next]_vars

----------------------------------------------------------------------------
(* The segmenter alone, on every document of Docs.                         *)

SegInit ==
    /\ pc = "segment"
    /\ html \in Docs
    /\ meta = "none"
    /\ errors = <<>>
    /\ interactions = NoInteractions
    /\ sections = <<>>
    /\ outcome = [scrape |-> "none", session |-> "none"]
    /\ playwright = 0
    /\ browser = 0
    /\ engines = <<>>
    /\ browsers = <<>>
    /\ pagesOpened = <<>>
    /\ call = NoCall
    /\ exc = ""
    /\ staticHtml = "none"
    /\ failures = {}
    /\ renderCalls = <<>>
    /\ harvest = NoHarvest

\* Scraper._parse_sections applied to the document
Segment ==
    /\ pc = "segment"
    /\ \E stale \in StaleBodies : sections' = _parse_sections(html, RequestedUrl, stale)
    /\ pc' = "segmented"
    /\ UNCHANGED <<html, meta, errors, interactions, outcome, sessionVars, pagesOpened,
                   call, exc, failures, historyVars>>

SegNext == Segment

SegSpec == SegInit /\ [][SegNext]_vars

----------------------------------------------------------------------------
(* The classifier alone, on elements of every landmark tag with class and  *)
(* id attributes that hold none, one or two of the searched words.         *)

S_FAQ == <<"F","A","Q">>

TypeClasses ==
    { <<>>, S_header, S_nav, S_footer, S_hero, S_faq_section, S_FAQ, S_pricing,
      S_grid, S_list, S_hero \o S_faq, S_pricing \o S_faq, S_list \o S_grid,
      S_grid \o S_pricing, <<"h","e">> }

TypeIds == { <<>>, S_footer, S_hero, S_faq, <<"r","o">> }

TypeInputs ==
    { Elem(tag, class, id, 30, 0, 30, 90) :
        tag \in Landmarks \cup { "div" }, class \in TypeClasses, id \in TypeIds }

TypeInit ==
    /\ pc = "classify"
    /\ html \in TypeInputs
    /\ meta = "none"
    /\ errors = <<>>
    /\ interactions = NoInteractions
    /\ sections = <<>>
    /\ outcome = [scrape |-> "none", session |-> "none"]
    /\ playwright = 0
    /\ browser = 0
    /\ engines = <<>>
    /\ browsers = <<>>
    /\ pagesOpened = <<>>
    /\ call = NoCall
    /\ exc = ""
    /\ staticHtml = "none"
    /\ failures = {}
    /\ renderCalls = <<>>
    /\ harvest = NoHarvest

\* Scraper._extract_section applied to the element
ExtractSection ==
    /\ pc = "classify"
    /\ sections' = << _extract_section(html, RequestedUrl, 0) >>
    /\ pc' = "classified"
    /\ UNCHANGED <<html, meta, errors, interactions, outcome, sessionVars, pagesOpened,
                   call, exc, failures, historyVars>>

TypeNext == ExtractSection

TypeSpec == TypeInit /\ [][TypeNext]_vars

----------------------------------------------------------------------------
(* Metadata.  What the two extractors look up in a document: the text of   *)
(* <title>, the content of the og:title, description and og:description    *)
(* meta tags, the lang attribute of <html> and the href of the canonical   *)
(* link; "" stands for a tag or attribute that is missing or empty.        *)

HeadOf(title, og_title, description, og_description, lang, canonical) ==
    [title |-> title, og_title |-> og_title, description |-> description,
     og_description |-> og_description, lang |-> lang, canonical |-> canonical]

\* values of the lang attribute: missing, "f", "fr", "en-US"
Langs == { <<>>, <<"f">>, <<"f", "r">>, <<"e", "n", "-", "U", "S">> }

HeadDocs ==
    { HeadOf(t, ot, d, od, l, c) :
        t \in { "", "Title" }, ot \in { "", "OG title" },
        d \in { "", "Description" }, od \in { "", "OG description" },
        l \in Langs, c \in { "", "https://a.test/canonical" } }

\* the meta dictionary both extractors start from; canonical None
DefaultMeta ==
    [title |-> "", description |-> "", language |-> <<"e", "n">>, canonical |-> "None"]

\* Scraper._extract_meta_static
_extract_meta_static(doc) ==
    [title |-> IF doc.og_title # "" THEN doc.og_title ELSE doc.title,
     description |-> IF doc.og_description # "" THEN doc.og_description
                     ELSE doc.description,
     language |-> IF doc.lang # <<>> THEN Take(doc.lang, LangChars)
                  ELSE DefaultMeta.language,
     canonical |-> IF doc.canonical # "" THEN doc.canonical ELSE DefaultMeta.canonical]

\* the four lookups of the live page, in the order the code makes them
Lookups == << "title", "description", "language", "canonical" >>

\* one try block around all four lookups: the first failure skips the rest
ExtractMetaJsOneTry(doc, failing) ==
    LET aborted(i) == \E j \in 1..i : Lookups[j] \in failing
    IN  [title |-> IF aborted(1) THEN DefaultMeta.title ELSE doc.title,
         description |-> IF aborted(2) \/ doc.description = ""
                         THEN DefaultMeta.description ELSE doc.description,
         language |-> IF aborted(3) \/ doc.lang = <<>>
                      THEN DefaultMeta.language ELSE Take(doc.lang, LangChars),
         canonical |-> IF aborted(4) \/ doc.canonical = ""
                       THEN DefaultMeta.canonical ELSE doc.canonical]

\* Scraper._extract_meta_js; failing: the lookups that raise
_extract_meta_js(doc, failing) ==
    [title |-> IF "title" \in failing THEN DefaultMeta.title ELSE doc.title,
     description |-> IF "description" \in failing \/ doc.description = ""
                     THEN DefaultMeta.description ELSE doc.description,
     language |-> IF "language" \in failing \/ doc.lang = <<>>
                  THEN DefaultMeta.language ELSE Take(doc.lang, LangChars),
     canonical |-> IF "canonical" \in failing \/ doc.canonical = ""
                   THEN DefaultMeta.canonical ELSE doc.canonical]

\* both extractors on every document of HeadDocs, the live one under every
\* set of failing lookups (kept in failures)
MetaInit ==
    /\ pc = "meta"
    /\ html \in HeadDocs
    /\ failures \in SUBSET { Lookups[i] : i \in DOMAIN Lookups }
    /\ meta = "none"
    /\ errors = <<>>
    /\ interactions = NoInteractions
    /\ sections = <<>>
    /\ outcome = [scrape |-> "none", session |-> "none"]
    /\ playwright = 0
    /\ browser = 0
    /\ engines = <<>>
    /\ browsers = <<>>
    /\ pagesOpened = <<>>
    /\ call = NoCall
    /\ exc = ""
    /\ staticHtml = "none"
    /\ renderCalls = <<>>
    /\ harvest = NoHarvest

ExtractMetaStatic ==
    /\ pc = "meta"
    /\ meta' = _extract_meta_static(html)
    /\ pc' = "meta_static"
    /\ UNCHANGED <<html, errors, interactions, sections, outcome, sessionVars,
                   pagesOpened, call, exc, failures, historyVars>>

ExtractMetaJs ==
    /\ pc = "meta_static"
    /\ call' = [call EXCEPT !.meta = _extract_meta_js(html, failures)]
    /\ pc' = "meta_js"
    /\ UNCHANGED <<html, meta, errors, interactions, sections, outcome, sessionVars,
                   pagesOpened, exc, failures, historyVars>>

MetaNext == ExtractMetaStatic \/ ExtractMetaJs

MetaSpec == MetaInit /\ [][MetaNext]_vars

----------------------------------------------------------------------------
(* Properties.                                                             *)

Returned == outcome.scrape = "returned"
ScrapeEnded == pc \in { "cleanup", "done" }
Placeholder == << EmptySection(RequestedUrl) >>
Phases(errs) == [i \in DOMAIN errs |-> errs[i].phase]
HasError(phase, cause) ==
    \E i \in DOMAIN errors : errors[i].phase = phase /\ errors[i].cause = cause

\* the failures of the fetch and of the render operations
FetchRenderFailures ==
    { "fetch", "start", "launch", "new_page", "goto", "goto_timeout", "content", "close" }

\* C1, as stated: whatever fetch and render operations fail, scrape returns a
\* document, never raises, and every failure has an entry in errors.
C1_EveryFailureRecorded ==
    ScrapeEnded =>
        /\ Returned
        /\ \A f \in failures \cap FetchRenderFailures :
             \E i \in DOMAIN errors : errors[i].cause = f

\* C1, amended: whatever fetch and render operations fail, scrape returns a
\* document and never raises, scrape_url returns it unless the teardown
\* itself fails, and errors is not empty when any of them failed.
C1_NeverRaises ==
    /\ outcome.scrape # "raised"
    /\ ScrapeEnded =>
         /\ Returned
         /\ (failures \cap FetchRenderFailures # {}) => errors # <<>>
    /\ (pc = "done" /\ failures \cap { "browser_close", "engine_stop" } = {})
         => outcome.session = "returned"

C1_Witness ==
    /\ pc = "done"
    /\ outcome.session = "returned"
    /\ { "fetch", "goto_timeout", "content" } \subseteq failures

\* C2: every returned result has at least one section.
C2_SectionsNonEmpty == Returned => sections # <<>>

\* C3: after a successful static fetch scrape makes a render call, the full
\* render when the body text is under 200 characters or there is no main
\* content and the interaction render otherwise, and what it returns never
\* is the static extraction.
C3_RenderAlwaysCalled ==
    /\ (pc = "get_browser" /\ call.site = "try") =>
         /\ staticHtml # "none"
         /\ renderCalls = << call.fn >>
         /\ call.fn = IF BodyText(html) < 200 \/ ~_has_main_content(html)
                      THEN "js" ELSE "interact"
    /\ (Returned /\ staticHtml # "none") =>
         /\ renderCalls # <<>>
         /\ renderCalls[1] \in { "js", "interact" }
         /\ meta # "static"

C3_Witness ==
    /\ Returned
    /\ staticHtml = "markup"
    /\ renderCalls = << "interact" >>
    /\ interactions.scrolls = ScrollRounds

\* C4: when the static fetch and the browser navigation both fail, errors is
\* a fetch-phase entry followed by a render-phase entry and sections is the
\* placeholder section.
C4_UnreachablePlaceholder ==
    (Returned /\ staticHtml = "none" /\ "goto" \in failures) =>
        /\ Phases(errors) = << "fetch", "render" >>
        /\ sections = Placeholder

\* C5: when the static fetch returned non-empty markup the sections are not
\* the placeholder section, also when the render call failed.
C5_PlaceholderOnlyWithoutMarkup ==
    (Returned /\ staticHtml = "markup") => sections # Placeholder

\* C6: when the session has ended every opened page is closed, every
\* launched browser is closed and every started engine is stopped.
\* (What could not be released because its own release call raised is
\* left out: a browser whose close raised, an engine whose stop raised.)
C6_AllReleased ==
    (pc = "done" /\ "engine_stop" \notin failures) =>
        /\ \A i \in DOMAIN engines : engines[i] = "stopped"
        /\ "browser_close" \notin failures =>
              /\ \A i \in DOMAIN browsers : browsers[i] = "closed"
              /\ \A i \in DOMAIN pagesOpened : pagesOpened[i] = "closed"

\* C7: when a navigation of a render call timed out, errors holds a
\* render-phase entry for the timeout and the markup segmented is what the
\* page held then.
C7_TimeoutHarvested ==
    (Returned /\ harvest.timedOut) =>
        /\ HasError("render", "goto_timeout")
        /\ harvest.doc # NoDoc
        /\ html = harvest.doc

\* the failures of the single interaction steps
StepFailures ==
    { "tabs_lookup", "tab_click", "load_more", "scroll", "next_lookup",
      "href_read", "page_goto" }

\* C8: the failure of an interaction step never adds an entry to the errors
\* of the result and never keeps the later steps from running: an
\* interaction render in which nothing else failed has done all its scrolls.
C8_StepFailuresSwallowed ==
    Returned =>
        /\ \A i \in DOMAIN errors : errors[i].cause \notin StepFailures
        /\ (renderCalls = << "interact" >> /\ failures = {}) =>
              interactions.scrolls = ScrollRounds

\* C9: interactions.pages of a returned result has no duplicate, starts with
\* the requested URL and has at most 4 entries.
C9_PagesUniqueBounded ==
    Returned =>
        LET pages == interactions.pages
        IN  /\ \A i, j \in DOMAIN pages : pages[i] = pages[j] => i = j
            /\ pages # <<>>
            /\ pages[1] = RequestedUrl
            /\ Len(pages) <= 4

C9_Witness ==
    /\ Returned
    /\ Len(interactions.pages) = 1 + PaginationRounds

\* C10, as stated: rawHtml of every section is at most 2000 characters.
C10_RawHtmlAtMostCap ==
    \A i \in DOMAIN sections : sections[i].rawHtml <= 2000

\* C10, amended: rawHtml of every section is at most 2003 characters, the
\* first 2000 of the markup and the marker "..." when it was truncated, and
\* at most 2000 when it was not.
C10_RawHtmlAtMostCapAndMarker ==
    \A i \in DOMAIN sections :
        /\ sections[i].rawHtml <= 2000 + 3
        /\ sections[i].truncated => sections[i].rawHtml = 2000 + 3
        /\ ~sections[i].truncated => sections[i].rawHtml <= 2000

C10_Witness ==
    /\ pc = "segmented"
    /\ \E i, j \in DOMAIN sections : sections[i].truncated /\ ~sections[j].truncated

\* C11: every section holds at most 10 headings, 50 links, 20 images, 10
\* lists and 5000 characters of text, its label has at most 50 characters,
\* and there are at most 20 sections.
C11_ContentWithinCaps ==
    /\ Len(sections) <= 20
    /\ \A i \in DOMAIN sections :
         /\ sections[i].headings <= 10
         /\ sections[i].links <= 50
         /\ sections[i].images <= 20
         /\ sections[i].lists <= 10
         /\ sections[i].text <= 5000
         /\ sections[i].label.len <= 50

\* C12: for the same document the static and the live-page extraction (no
\* lookup failing) return equal title, description, language and canonical.
C12_SameMetaOnBothPaths ==
    (pc = "meta_js" /\ failures = {}) => call.meta = meta

\* C13: the classifier tries the rules header, nav, footer, article, hero,
\* faq, pricing, grid, list in this order and returns the type of the first
\* that matches, "section" when none does: header and nav give "nav", footer
\* "footer", the article tag "section", and "faq" in the class of an element
\* that matches no earlier rule gives "faq".
C13_FirstMatchingRule ==
    pc = "classified" =>
        LET tag == html.tag
            in(w) == Contains(Lower(html.class), w) \/ Contains(Lower(html.id), w)
            rules == << [hit |-> tag = "header" \/ in(S_header), type |-> "nav"],
                        [hit |-> tag = "nav" \/ in(S_nav), type |-> "nav"],
                        [hit |-> tag = "footer" \/ in(S_footer), type |-> "footer"],
                        [hit |-> tag = "article", type |-> "section"],
                        [hit |-> \/ in(S_hero)
                                 \/ /\ tag = "section"
                                    /\ Contains(Lower(html.class) \o Lower(html.id), S_hero),
                         type |-> "hero"],
                        [hit |-> in(S_faq), type |-> "faq"],
                        [hit |-> in(S_pricing), type |-> "pricing"],
                        [hit |-> in(S_grid), type |-> "grid"],
                        [hit |-> in(S_list), type |-> "list"],
                        [hit |-> TRUE, type |-> "section"] >>
            first == CHOOSE i \in DOMAIN rules :
                        rules[i].hit /\ \A j \in 1..(i - 1) : ~rules[j].hit
        IN  sections[1].type = rules[first].type

\* <section class="faq-section"> is classified "faq"
C13_Witness ==
    /\ pc = "classified"
    /\ html.tag = "section"
    /\ html.class = S_faq_section
    /\ html.id = <<>>
    /\ sections[1].type = "faq"

\* C14: errors holds a fetch-phase entry only if the static retrieval
\* failed; a render call that fails after a successful static fetch is
\* recorded with phase "render", never "fetch".
C14_FetchPhaseOnlyForFetch ==
    \A i \in DOMAIN errors :
        errors[i].phase = "fetch" =>
            /\ staticHtml = "none"
            /\ "fetch" \in failures
            /\ errors[i].cause = "fetch"

\* C15: when the interaction render met a hard failure, the result has a
\* render-phase error and its interactions are the clicks, scrolls and pages
\* accumulated before the failure, also when reading the content or closing
\* the page fails afterwards.
C15_HardFailureKeepsInteractions ==
    (Returned /\ harvest.kept.hard) =>
        /\ \E i \in DOMAIN errors : errors[i].phase = "render"
        /\ Len(interactions.clicks) = harvest.kept.clicks
        /\ interactions.scrolls = harvest.kept.scrolls
        /\ Len(interactions.pages) = harvest.kept.pages

\* C16: the load-more scan issues a click on at most one element: after the
\* first matching candidate was clicked, successfully or not, no later one
\* is queried or clicked; the clicks log holds at most one load-more
\* selector, after at most 3 tab entries.
C16_AtMostOneLoadMoreClick ==
    /\ call.issued <= 1
    /\ (pc = "load_more" => call.issued = 0)
    /\ LET loadMore == SelectSeq(call.clicks, LAMBDA c : c # TabSelector)
           tabs == SelectSeq(call.clicks, LAMBDA c : c = TabSelector)
       IN  /\ Len(loadMore) <= 1
           /\ Len(tabs) <= 3
           /\ call.clicks = tabs \o loadMore

\* C17: an interaction render that finishes without a hard failure has made
\* exactly 3 scroll rounds and reports scrolls = 3, pagination is attempted
\* only in the first two rounds, and in every result scrolls is within 0..3
\* and is 0 when the result came from the full render or the empty fallback.
C17_ThreeScrollRounds ==
    /\ [](/\ call.scrolls \in 0..3
          /\ (call.fn = "interact" /\ call.ctx = "try" /\ pc \in { "content", "close" }) =>
                (call.round = 3 /\ call.scrolls = 3)
          /\ Returned =>
                /\ interactions.scrolls \in 0..3
                /\ (renderCalls = << "interact" >> /\ ~harvest.kept.hard) =>
                      interactions.scrolls = 3
                /\ renderCalls[Len(renderCalls)] = "js" => interactions.scrolls = 0)
    /\ [][(pc = "scroll" /\ call.round >= 2) =>
            (call'.pages_visited = call.pages_visited /\ call'.at = call.at)]_vars

\* a clean interaction render that followed a next link in both pagination
\* rounds
C17_Witness ==
    /\ Returned
    /\ renderCalls = << "interact" >>
    /\ ~harvest.kept.hard
    /\ errors = <<>>
    /\ interactions.scrolls = 3
    /\ Len(interactions.pages) = 3

\* C18: a session launches at most one browser and starts at most one
\* automation engine, both not before its first render call, and later
\* render calls reuse them, also after a failed render call or launch.
C18_OneBrowserOneEngine ==
    /\ Len(engines) <= 1
    /\ Len(browsers) <= 1
    /\ renderCalls = <<>> => (engines = <<>> /\ browsers = <<>>)
    /\ (pc = "new_page" /\ Len(renderCalls) > 1) => (playwright = 1 /\ browser = 1)

\* C19: the static document has main content exactly when it holds a main
\* or an article landmark whose stripped text is longer than 100 characters,
\* so with enough body text the interaction render is chosen exactly then;
\* a short main beside a long article counts as main content.
C19_MainOrArticle ==
    (pc = "get_browser" /\ call.site = "try") =>
        LET substantial ==
                \E i \in DOMAIN html.children :
                    /\ html.children[i].tag \in { "main", "article" }
                    /\ html.children[i].text > 100
        IN  (BodyText(html) >= 200) =>
                (call.fn = "interact" <=> substantial)

\* C20: whatever subset of the four live-page lookups fails, a failed field
\* keeps its default and every other field keeps the value read.
C20_LookupsIndependent ==
    pc = "meta_js" =>
        /\ call.meta.title =
             IF "title" \in failures THEN "" ELSE html.title
        /\ call.meta.description =
             IF "description" \in failures THEN "" ELSE html.description
        /\ call.meta.language =
             IF "language" \in failures \/ html.lang = <<>> THEN <<"e", "n">>
             ELSE SubSeq(html.lang, 1, IF Len(html.lang) < 2 THEN Len(html.lang) ELSE 2)
        /\ call.meta.canonical =
             IF "canonical" \in failures \/ html.canonical = "" THEN "None"
             ELSE html.canonical

\* the first lookup fails, the three after it succeed and read a value
C20_Witness ==
    /\ pc = "meta_js"
    /\ failures = { "title" }
    /\ html.title # ""
    /\ call.meta.title = ""
    /\ call.meta.description = "Description"
    /\ call.meta.language = <<"f", "r">>
    /\ call.meta.canonical # "None"

\* C21: every URL of the visited list after the first is one the page was
\* navigated to: a next-page URL is recorded only once the navigation to it
\* has completed, so the page is at the last recorded URL and a failed
\* navigation leaves the list as it was.
C21_PagesWereNavigatedTo ==
    Len(call.pages_visited) > 1 =>
        call.at = call.pages_visited[Len(call.pages_visited)]

\* C22: the errors of a returned result are at most 2, every phase is
\* "fetch" or "render", at most one entry has phase "fetch", and that entry
\* is the first.
C22_ErrorsShape ==
    Returned =>
        /\ Len(errors) <= 2
        /\ \A i \in DOMAIN errors :
             /\ errors[i].phase \in { "fetch", "render" }
             /\ errors[i].phase = "fetch" => i = 1

\* a failed static fetch followed by a render call that records an error of
\* its own
C22_Witness ==
    /\ Returned
    /\ Len(errors) = 2
    /\ errors[1].phase = "fetch"
    /\ errors[2].phase = "render"
    /\ errors[2].message # "JS scrape failed"

====
